---- MODULE Spec2Model ----
(***************************************************************************)
(* Stock dashboard (src/main.py): the indicator engine (calculate_sma,     *)
(* calculate_ema, calculate_rsi) and the request handler main.             *)
(*                                                                         *)
(* Close prices are integers (price units); every derived value is an     *)
(* exact rational, NaN or a signed infinity, so the float64 pipeline of    *)
(* pandas is followed operation by operation with IEEE-754's rules for     *)
(* x/0, 0/0 and NaN propagation, without rounding error.  Positions are    *)
(* 1-based: the source's index i is position i+1 here.                     *)
(***************************************************************************)
EXTENDS Integers, Sequences, FiniteSets, TLC

\* Bounds of the explored inputs.
MaxLen == 4
MaxPrice == 3
MaxWindow == 3
MaxHist == 2

\* Slider defaults, main (the sliders are left where the app puts them).
SmaWindowDefault == 20
EmaWindowDefault == 20
RsiWindowDefault == 14

Prices == 1..MaxPrice
Windows == 1..MaxWindow
Series == UNION {[1..n -> Prices] : n \in 0..MaxLen}
Histories == UNION {[1..n -> Prices] : n \in 0..MaxHist}

----------------------------------------------------------------------------
\* float64 values: NaN, +/-inf, or the rational n/d in lowest terms, d > 0.

Abs(x) == IF x < 0 THEN -x ELSE x

Sgn(x) == IF x < 0 THEN -1 ELSE 1

RECURSIVE GCD(_, _)
GCD(a, b) == IF b = 0 THEN a ELSE GCD(b, a % b)

NaN == [k |-> "nan", n |-> 0, d |-> 1]

Inf(s) == [k |-> "inf", n |-> s, d |-> 1]

Num(n, d) ==
    LET g == GCD(Abs(n), Abs(d))
    IN  [k |-> "num", n |-> (Sgn(d) * n) \div g, d |-> Abs(d) \div g]

Float(x) == Num(x, 1)

IsNaN(a) == a.k = "nan"

IsNum(a) == a.k = "num"

\* a > 0 and a < 0: every comparison with NaN is False.
FPos(a) == a.k # "nan" /\ a.n > 0

FNegative(a) == a.k # "nan" /\ a.n < 0

FNeg(a) == IF a.k = "nan" THEN NaN ELSE [a EXCEPT !.n = -a.n]

FAdd(a, b) ==
    IF a.k = "nan" \/ b.k = "nan" THEN NaN
    ELSE IF a.k = "inf" THEN (IF b.k = "inf" /\ b.n # a.n THEN NaN ELSE a)
    ELSE IF b.k = "inf" THEN b
    ELSE Num(a.n * b.d + b.n * a.d, a.d * b.d)

FSub(a, b) == FAdd(a, FNeg(b))

FMul(a, b) ==
    IF a.k = "nan" \/ b.k = "nan" THEN NaN
    ELSE IF a.k = "inf" \/ b.k = "inf"
         THEN (IF a.n = 0 \/ b.n = 0 THEN NaN ELSE Inf(Sgn(a.n) * Sgn(b.n)))
    ELSE Num(a.n * b.n, a.d * b.d)

\* Division of Series: x/0 is an infinity for x # 0, 0/0 is NaN, no raise.
FDiv(a, b) ==
    IF a.k = "nan" \/ b.k = "nan" THEN NaN
    ELSE IF a.k = "inf" THEN (IF b.k = "inf" THEN NaN ELSE Inf(Sgn(a.n) * Sgn(b.n)))
    ELSE IF b.k = "inf" THEN Float(0)
    ELSE IF b.n = 0 THEN (IF a.n = 0 THEN NaN ELSE Inf(Sgn(a.n)))
    ELSE Num(a.n * b.d, a.d * b.n)

----------------------------------------------------------------------------
\* pandas Series operations used by the indicator functions.

\* data['Close']
Close(data) == [i \in 1..Len(data) |-> Float(data[i])]

\* Series.diff(): s[i] - s[i-1], NaN at the first position.
diff(s) == [i \in 1..Len(s) |-> IF i = 1 THEN NaN ELSE FSub(s[i], s[i - 1])]

\* Series.where(cond, 0): the value where cond is True, 0 where it is False.
where_positive(s) == [i \in 1..Len(s) |-> IF FPos(s[i]) THEN s[i] ELSE Float(0)]

where_negative(s) == [i \in 1..Len(s) |-> IF FNegative(s[i]) THEN s[i] ELSE Float(0)]

\* Unary minus on a Series.
neg(s) == [i \in 1..Len(s) |-> FNeg(s[i])]

\* rolling(window).mean(): the running sum and the count of non-NaN
\* observations of the window ending at position i, kept by adding the
\* entering value and removing the one that leaves the window.
RECURSIVE roll_state(_, _, _)
roll_state(s, window, i) ==
    IF i = 0 THEN [sum |-> Float(0), nobs |-> 0]
    ELSE LET prev == roll_state(s, window, i - 1)
             removed == IF i > window /\ ~IsNaN(s[i - window])
                        THEN [sum |-> FSub(prev.sum, s[i - window]), nobs |-> prev.nobs - 1]
                        ELSE prev
         IN  IF IsNaN(s[i]) THEN removed
             ELSE [sum |-> FAdd(removed.sum, s[i]), nobs |-> removed.nobs + 1]

\* min_periods defaults to the window: NaN until the window holds `window`
\* observations.
rolling_mean(s, window) ==
    [i \in 1..Len(s) |->
        LET st == roll_state(s, window, i)
        IN  IF st.nobs >= window /\ st.nobs > 0
            THEN FDiv(st.sum, Float(st.nobs)) ELSE NaN]

\* ewm(span, adjust=False).mean(): alpha = 2/(span+1); the first value is
\* the first observation; then the old value weighted 1-alpha and the new
\* one weighted alpha, normalised by their sum.
RECURSIVE ewm_at(_, _, _)
ewm_at(s, span, i) ==
    IF i = 1 THEN s[1]
    ELSE LET alpha == FDiv(Float(2), Float(span + 1))
             old_wt == FSub(Float(1), alpha)
             new_wt == alpha
             weighted == ewm_at(s, span, i - 1)
         IN  FDiv(FAdd(FMul(old_wt, weighted), FMul(new_wt, s[i])), FAdd(old_wt, new_wt))

ewm_mean(s, span) == [i \in 1..Len(s) |-> ewm_at(s, span, i)]

----------------------------------------------------------------------------
\* The indicator engine.

\* rolling(window, min_periods=1) in place of rolling(window).
calculate_sma_min_periods_1(data, window) ==
    [i \in 1..Len(data) |->
        LET st == roll_state(Close(data), window, i)
        IN  IF st.nobs >= 1 THEN FDiv(st.sum, Float(st.nobs)) ELSE NaN]

calculate_sma(data, window) == rolling_mean(Close(data), window)

\* ewm(span, adjust=True): the weighted average with weights (1-alpha)^j.
RECURSIVE ewm_adjusted_sums(_, _, _)
ewm_adjusted_sums(s, span, i) ==
    IF i = 1 THEN [num |-> s[1], den |-> Float(1)]
    ELSE LET decay == FSub(Float(1), FDiv(Float(2), Float(span + 1)))
             prev == ewm_adjusted_sums(s, span, i - 1)
         IN  [num |-> FAdd(s[i], FMul(decay, prev.num)),
              den |-> FAdd(Float(1), FMul(decay, prev.den))]

calculate_ema_adjusted(data, window) ==
    [i \in 1..Len(data) |->
        LET sums == ewm_adjusted_sums(Close(data), window, i)
        IN  FDiv(sums.num, sums.den)]

\* ewm(span, adjust=False, min_periods=span): a warm-up gap like SMA's.
calculate_ema_warm_up(data, window) ==
    [i \in 1..Len(data) |-> IF i < window THEN NaN ELSE ewm_at(Close(data), window, i)]

calculate_ema(data, window) == ewm_mean(Close(data), window)

rsi_delta(data) == diff(Close(data))

\* delta.clip(lower=0) in place of delta.where(delta > 0, 0): NaN is kept.
rsi_gain_nan_kept(data) ==
    [i \in 1..Len(data) |->
        IF IsNaN(rsi_delta(data)[i]) THEN NaN ELSE where_positive(rsi_delta(data))[i]]

rsi_gain(data) == where_positive(rsi_delta(data))

rsi_loss(data) == neg(where_negative(rsi_delta(data)))

rsi_avg_gain(data, window) == rolling_mean(rsi_gain(data), window)

rsi_avg_loss(data, window) == rolling_mean(rsi_loss(data), window)

\* avg_loss / avg_gain in place of avg_gain / avg_loss.
rsi_rs_inverted(data, window) ==
    LET avg_gain == rsi_avg_gain(data, window)
        avg_loss == rsi_avg_loss(data, window)
    IN  [i \in 1..Len(data) |-> FDiv(avg_loss[i], avg_gain[i])]

rsi_rs(data, window) ==
    LET avg_gain == rsi_avg_gain(data, window)
        avg_loss == rsi_avg_loss(data, window)
    IN  [i \in 1..Len(data) |-> FDiv(avg_gain[i], avg_loss[i])]

rsi_series(data, window) ==
    LET rs == rsi_rs(data, window)
    IN  [i \in 1..Len(data) |-> FSub(Float(100), FDiv(Float(100), FAdd(Float(1), rs[i])))]

\* rsi.iloc[-1]: the last position; IndexError on an empty Series.
iloc_last(s) ==
    IF Len(s) = 0 THEN [raised |-> TRUE, value |-> NaN]
    ELSE [raised |-> FALSE, value |-> s[Len(s)]]

\* The result of a call: raised, or the returned series and latest value.
calculate_rsi(data, window) ==
    LET series == rsi_series(data, window)
        last == iloc_last(series)
    IN  IF last.raised
        THEN [done |-> TRUE, raised |-> TRUE, series |-> <<>>, latest |-> NaN]
        ELSE [done |-> TRUE, raised |-> FALSE, series |-> series, latest |-> last.value]

Pending == [done |-> FALSE, raised |-> FALSE, series |-> <<>>, latest |-> NaN]

Returned(s) == [done |-> TRUE, raised |-> FALSE, series |-> s, latest |-> NaN]

----------------------------------------------------------------------------
\* The request handler.  Optional values (None in the source) are sequences
\* of length 0 (None) or 1.

Kinds == {"absent", "num", "str"}

Infos == [currentPrice : Kinds, marketCap : Kinds, trailingPE : Kinds]

FullInfo == [currentPrice |-> "num", marketCap |-> "num", trailingPE |-> "num"]

\* What the market-data provider does for the entered symbol and dates: it
\* raises, or it returns a price history and a metadata mapping.
Providers ==
    {[fails |-> TRUE, hist |-> <<>>, info |-> FullInfo]}
        \cup [fails : {FALSE}, hist : Histories, info : Infos]

\* The except branch without its st.error.
fetch_stock_data_silent(p) ==
    IF p.fails
    THEN [hist |-> <<>>, info |-> <<>>, errors |-> 0, calls |-> 1]
    ELSE [hist |-> <<p.hist>>, info |-> <<p.info>>, errors |-> 0, calls |-> 1]

\* One call of the provider; on an exception one st.error and (None, None).
fetch_stock_data(p) ==
    IF p.fails
    THEN [hist |-> <<>>, info |-> <<>>, errors |-> 1, calls |-> 1]
    ELSE [hist |-> <<p.hist>>, info |-> <<p.info>>, errors |-> 0, calls |-> 1]

\* f"${info.get('currentPrice', 'N/A'):.2f}": format code 'f' applied to
\* the value, or to the default 'N/A' when the key is absent.
format_current_price(info) ==
    IF info.currentPrice = "num"
    THEN [raised |-> "none", text |-> "formatted"]
    ELSE [raised |-> "ValueError", text |-> ""]

\* f"${info.get('marketCap', 0) / 1e9:.2f}B": the default is the number 0.
format_market_cap(info) ==
    IF info.marketCap = "str"
    THEN [raised |-> "TypeError", text |-> ""]
    ELSE [raised |-> "none", text |-> "formatted"]

\* trailingPE: formatted when int or float, str(value) otherwise.
format_pe(info) ==
    IF info.trailingPE = "num" THEN "formatted"
    ELSE IF info.trailingPE = "absent" THEN "N/A"
    ELSE "text"

\* f"{latest_rsi:.2f}" of a float, NaN and infinities included.
format_latest_rsi(x) ==
    IF x.k = "nan" THEN "nan" ELSE IF x.k = "inf" THEN "inf" ELSE "formatted"

create_price_chart(hist, sma_window, ema_window) ==
    [sma |-> calculate_sma(hist, sma_window), ema |-> calculate_ema(hist, ema_window)]

create_rsi_chart(hist, rsi_window) == [rsi |-> calculate_rsi(hist, rsi_window).series]

\* What one run of the script has put on the page.
NoOutput ==
    [warnings |-> 0, errors |-> 0, fetches |-> 0, indicator_calls |-> 0,
     raised |-> "none", price |-> "", cap |-> "", pe |-> "", latest_rsi |-> "",
     price_chart |-> <<>>, rsi_chart |-> <<>>, table |-> FALSE, csv |-> FALSE]

\* Lines 119-163: the branch taken when both results are not None.  An
\* exception ends the run where it is raised.
display(page, hist, info) ==
    LET r == calculate_rsi(hist, RsiWindowDefault)
        computed == [page EXCEPT !.indicator_calls = @ + 1]
        price == format_current_price(info)
        cap == format_market_cap(info)
    IN  IF r.raised THEN [computed EXCEPT !.raised = "IndexError"]
        ELSE IF price.raised # "none" THEN [computed EXCEPT !.raised = price.raised]
        ELSE IF cap.raised # "none"
             THEN [computed EXCEPT !.raised = cap.raised, !.price = price.text]
        ELSE [computed EXCEPT
                !.price = price.text,
                !.cap = cap.text,
                !.pe = format_pe(info),
                !.latest_rsi = format_latest_rsi(r.latest),
                !.price_chart = <<create_price_chart(hist, SmaWindowDefault, EmaWindowDefault)>>,
                !.rsi_chart = <<create_rsi_chart(hist, RsiWindowDefault)>>,
                !.indicator_calls = @ + 3,
                !.table = TRUE,
                !.csv = TRUE]

\* len(date_range) >= 1 in place of len(date_range) == 2.
main_one_date_enough(date_range_len, button, p) ==
    IF date_range_len < 1 THEN [NoOutput EXCEPT !.warnings = 1]
    ELSE IF ~button THEN NoOutput
    ELSE LET f == fetch_stock_data(p)
             page == [NoOutput EXCEPT !.errors = f.errors, !.fetches = f.calls]
         IN  IF Len(f.hist) = 1 /\ Len(f.info) = 1
             THEN display(page, f.hist[1], f.info[1])
             ELSE [page EXCEPT !.errors = @ + 1]

\* One run of the script: the number of dates the date input holds, whether
\* this run was triggered by the button, and the provider's behaviour.
main(date_range_len, button, p) ==
    IF date_range_len # 2 THEN [NoOutput EXCEPT !.warnings = 1]
    ELSE IF ~button THEN NoOutput
    ELSE LET f == fetch_stock_data(p)
             page == [NoOutput EXCEPT !.errors = f.errors, !.fetches = f.calls]
         IN  IF Len(f.hist) = 1 /\ Len(f.info) = 1
             THEN display(page, f.hist[1], f.info[1])
             ELSE [page EXCEPT !.errors = @ + 1]

----------------------------------------------------------------------------
VARIABLES data, window, sma, ema, rsi, provider, date_range, button, ui

vars == <<data, window, sma, ema, rsi>>

appvars == <<provider, date_range, button, ui>>

allvars == <<data, window, sma, ema, rsi, provider, date_range, button, ui>>

\* The indicator engine alone: a price series and a window, no indicator
\* computed yet.
Init ==
    /\ data \in Series
    /\ window \in Windows
    /\ sma = Pending
    /\ ema = Pending
    /\ rsi = Pending
    /\ provider = [fails |-> TRUE, hist |-> <<>>, info |-> FullInfo]
    /\ date_range = 2
    /\ button = FALSE
    /\ ui = NoOutput

CallSma ==
    /\ ~sma.done
    /\ sma' = Returned(calculate_sma(data, window))
    /\ UNCHANGED <<data, window, ema, rsi, appvars>>

CallEma ==
    /\ ~ema.done
    /\ ema' = Returned(calculate_ema(data, window))
    /\ UNCHANGED <<data, window, sma, rsi, appvars>>

CallRsi ==
    /\ ~rsi.done
    /\ rsi' = calculate_rsi(data, window)
    /\ UNCHANGED <<data, window, sma, ema, appvars>>

Next == CallSma \/ CallEma \/ CallRsi

Spec == Init /\ [][Next]_allvars

\* The app: the page after the first run of the script, with the date
\* input at its default of two dates and the button not pressed.
InitMain ==
    /\ provider \in Providers
    /\ date_range = 2
    /\ button = FALSE
    /\ ui = main(2, FALSE, provider)
    /\ data = <<>>
    /\ window = 1
    /\ sma = Pending
    /\ ema = Pending
    /\ rsi = Pending

\* The user changes the date input; the script reruns, the button reads
\* False.
SelectDateRange ==
    \E n \in 0..2 :
        /\ n # date_range
        /\ date_range' = n
        /\ button' = FALSE
        /\ ui' = main(n, FALSE, provider)
        /\ UNCHANGED <<provider, vars>>

\* The user presses the button, which is on the page only when the last
\* run got past the date check; the script reruns, the button reads True.
PressFetch ==
    /\ date_range = 2
    /\ button' = TRUE
    /\ ui' = main(date_range, TRUE, provider)
    /\ UNCHANGED <<provider, date_range, vars>>

NextMain == SelectDateRange \/ PressFetch

SpecMain == InitMain /\ [][NextMain]_allvars

----------------------------------------------------------------------------
\* Helpers of the properties.

RECURSIVE SumClose(_, _, _)
SumClose(d, lo, hi) == IF hi < lo THEN 0 ELSE d[hi] + SumClose(d, lo, hi - 1)

AllNaN(s) == \A i \in 1..Len(s) : IsNaN(s[i])

Defined(s) == {i \in 1..Len(s) : ~IsNaN(s[i])}

Max(S) == CHOOSE x \in S : \A y \in S : y <= x

StrictlyIncreasing(d) == \A i \in 2..Len(d) : d[i] > d[i - 1]

Constant(d) == \A i \in 1..Len(d) : d[i] = d[1]

FetchRun == date_range = 2 /\ button

NothingRendered ==
    /\ ui.indicator_calls = 0
    /\ Len(ui.price_chart) = 0
    /\ Len(ui.rsi_chart) = 0
    /\ ~ui.table
    /\ ~ui.csv

----------------------------------------------------------------------------
\* C6: calculate_sma returns a series of the length of the price series,
\* undefined at the first window-1 positions (all of them when the window
\* is longer than the series) and equal to the arithmetic mean of the last
\* `window` closes at every later position.
C6_SmaIsWindowMean ==
    sma.done =>
        /\ ~sma.raised
        /\ Len(sma.series) = Len(data)
        /\ \A i \in 1..Len(data) :
            IF i >= window
            THEN /\ IsNum(sma.series[i])
                 /\ sma.series[i].n * window
                        = SumClose(data, i - window + 1, i) * sma.series[i].d
            ELSE IsNaN(sma.series[i])

C6_Witness ==
    /\ sma.done
    /\ window >= 2
    /\ Len(data) > window
    /\ ~Constant(data)
    /\ IsNaN(sma.series[window - 1])
    /\ IsNum(sma.series[Len(data)])

\* C7: calculate_ema of a non-empty series has the length of the series and
\* no undefined entry; E[0] = close[0] and
\* (w+1) * E[i] = 2 * close[i] + (w-1) * E[i-1]; on a constant series it is
\* that constant everywhere.
C7_EmaIsRecursive ==
    (ema.done /\ Len(data) > 0) =>
        /\ ~ema.raised
        /\ Len(ema.series) = Len(data)
        /\ \A i \in 1..Len(data) : IsNum(ema.series[i])
        /\ ema.series[1] = Float(data[1])
        /\ \A i \in 2..Len(data) :
            LET e == ema.series[i]
                prev == ema.series[i - 1]
            IN  e.n * (window + 1) * prev.d
                    = (2 * data[i] * prev.d + (window - 1) * prev.n) * e.d
        /\ Constant(data) => \A i \in 1..Len(data) : ema.series[i] = Float(data[1])

C7_Witness ==
    /\ ema.done
    /\ window >= 2
    /\ Len(data) >= 3
    /\ data[1] # data[2]
    /\ data[2] # data[3]
    /\ ema.series[3] # Float(data[3])

\* C9: where avgGain and avgLoss are defined, RSI is 100*avgGain/(avgGain+avgLoss),
\* within [0,100], when avgLoss > 0; exactly 100 when avgLoss = 0 < avgGain;
\* undefined when both are 0.  On a strictly increasing series RSI is 100
\* at every index >= window.
C9_RsiCases ==
    (rsi.done /\ ~rsi.raised) =>
        /\ LET avg_gain == rsi_avg_gain(data, window)
               avg_loss == rsi_avg_loss(data, window)
           IN  \A i \in 1..Len(data) :
            LET g == avg_gain[i]
                l == avg_loss[i]
                r == rsi.series[i]
            IN  (IsNum(g) /\ IsNum(l)) =>
                    /\ l.n >= 0 /\ g.n >= 0
                    /\ l.n > 0 =>
                        /\ IsNum(r)
                        /\ 0 <= r.n /\ r.n <= 100 * r.d
                        /\ r.n * (g.n * l.d + l.n * g.d) = 100 * g.n * l.d * r.d
                    /\ (l.n = 0 /\ g.n > 0) => r = Float(100)
                    /\ (l.n = 0 /\ g.n = 0) => IsNaN(r)
        /\ StrictlyIncreasing(data) =>
            \A i \in (window + 1)..Len(data) : rsi.series[i] = Float(100)

C9_Witness ==
    /\ rsi.done /\ ~rsi.raised
    /\ \E i, j, m \in 1..Len(data) :
        /\ IsNaN(rsi.series[i]) /\ IsNum(rsi_avg_gain(data, window)[i])
        /\ rsi.series[j] = Float(100)
        /\ IsNum(rsi.series[m]) /\ rsi.series[m].n > 0 /\ rsi.series[m].n < 100 * rsi.series[m].d

\* C3 (as claimed): when the RSI series has a defined value, the latest RSI
\* returned by calculate_rsi is the most recent defined value of the series.
C3_LatestIsLastDefined ==
    (rsi.done /\ ~rsi.raised /\ Defined(rsi.series) # {}) =>
        rsi.latest = rsi.series[Max(Defined(rsi.series))]

\* C4 (as claimed): no indicator call raises, whatever the series and the
\* window, and the latest RSI is the undefined value when no RSI value is
\* defined.
C4_IndicatorsNeverRaise ==
    /\ sma.done => ~sma.raised
    /\ ema.done => ~ema.raised
    /\ rsi.done => (~rsi.raised /\ (Defined(rsi.series) = {} => IsNaN(rsi.latest)))

\* C5 (as claimed): on a series of length 0 or 1 the SMA, EMA and RSI series
\* have no defined entry.
C5_ShortSeriesAllUndefined ==
    Len(data) <= 1 =>
        /\ sma.done => AllNaN(sma.series)
        /\ ema.done => AllNaN(ema.series)
        /\ rsi.done => AllNaN(rsi.series)

\* C5 (amended): on a series of length 0 or 1 no returned RSI series has a
\* defined entry and the SMA series is undefined for window >= 2; the EMA of
\* a single row is that row's close, and so is its SMA for window = 1; the
\* SMA and EMA of the empty series are empty.
C5_ShortSeries ==
    Len(data) <= 1 =>
        /\ rsi.done => AllNaN(rsi.series)
        /\ sma.done =>
            /\ Len(sma.series) = Len(data)
            /\ \A i \in 1..Len(data) :
                IF window = 1 THEN sma.series[i] = Float(data[i]) ELSE IsNaN(sma.series[i])
        /\ ema.done =>
            /\ Len(ema.series) = Len(data)
            /\ \A i \in 1..Len(data) : ema.series[i] = Float(data[i])

C5_Witness ==
    /\ Len(data) = 1
    /\ window >= 2
    /\ sma.done /\ ema.done /\ rsi.done
    /\ IsNaN(sma.series[1])
    /\ IsNum(ema.series[1])
    /\ ~rsi.raised /\ IsNaN(rsi.series[1])

\* C8 (as claimed): the RSI series is undefined at every index below the
\* window, that is at positions 1..window.
C8_RsiUndefinedBelowWindow ==
    (rsi.done /\ ~rsi.raised) =>
        \A i \in 1..Len(data) : i <= window => IsNaN(rsi.series[i])

\* C8 (amended): delta is undefined at index 0 but gain and loss are 0
\* there, so avgGain and avgLoss are defined from index window-1 on, and the
\* RSI series is undefined at every index below window-1.
C8_RsiWarmUp ==
    (rsi.done /\ ~rsi.raised) =>
        /\ \A i \in 1..Len(data) : i < window => IsNaN(rsi.series[i])
        /\ IsNaN(rsi_delta(data)[1])
        /\ rsi_gain(data)[1] = Float(0) /\ rsi_loss(data)[1] = Float(0)
        /\ LET avg_gain == rsi_avg_gain(data, window)
               avg_loss == rsi_avg_loss(data, window)
           IN  \A i \in 1..Len(data) :
                /\ IsNum(avg_gain[i]) <=> i >= window
                /\ IsNum(avg_loss[i]) <=> i >= window

C8_Witness ==
    /\ rsi.done /\ ~rsi.raised
    /\ window >= 2
    /\ Len(data) > window
    /\ IsNaN(rsi.series[window - 1])
    /\ IsNum(rsi.series[window])

----------------------------------------------------------------------------
C2_MetadataTolerated ==
    (/\ FetchRun
     /\ ~provider.fails
     /\ Len(provider.hist) > 0
     /\ \/ provider.info.currentPrice # "num"
        \/ provider.info.marketCap # "num"
        \/ provider.info.trailingPE # "num") =>
        /\ ui.raised = "none"
        /\ ui.price # "" /\ ui.cap # "" /\ ui.pe # ""
        /\ Len(ui.price_chart) = 1
        /\ Len(ui.rsi_chart) = 1
        /\ ui.table
        /\ ui.csv

\* C10: with an incomplete date range the run surfaces one warning and
\* fetches, computes and renders nothing, whatever the button reads; a run
\* fetches only with both bounds chosen and the button pressed, and then
\* once.
C10_DateRangeGuardsFetch ==
    /\ date_range # 2 =>
        /\ ui.warnings = 1
        /\ ui.errors = 0
        /\ ui.fetches = 0
        /\ NothingRendered
        /\ \A b \in BOOLEAN : main(date_range, b, provider) = ui
    /\ ui.fetches \in {0, 1}
    /\ ui.fetches = 1 <=> FetchRun
    /\ FetchRun => ui.warnings = 0

C10_Witness ==
    /\ date_range = 1
    /\ ui.warnings = 1
    /\ ui.fetches = 0

====
